---- MODULE Spec2Model ----
(***************************************************************************)
(* Leostream MCP tool servers: the credential file written by              *)
(* gen_LeoSessionID.py, read by kill_LeoSessionID.py and by get_session,   *)
(* and the request forwarder make_request of the agent and helper servers. *)
(*                                                                         *)
(* Time is counted in ticks, TicksPerSec to the second, so that the        *)
(* truncation int(time.time()) and the float os.path.getmtime() differ.    *)
(* Formatted strings are records of the values interpolated into them.     *)
(***************************************************************************)
EXTENDS Integers, Sequences, FiniteSets, TLC

\* ---------------------------------------------------------------- bounds
TicksPerSec == 2
MaxSkew == 1

\* ------------------------------------------------------ program constants
StaleAfter == 43200

\* the instants the clock can show: a few ticks after the start and a few
\* ticks either side of 12 hours after it
TimePoints ==
    (0..MaxSkew) \cup
    { StaleAfter * TicksPerSec + o : o \in (0 - MaxSkew)..MaxSkew }

\* ------------------------------------------------------------ value sets
Sids == {"sid1", "sid2"}
NoFile == "<no file>"
Torn == "<empty file>"
NoToken == "<none>"

USER_AGENT == "Mozilla/5.0"
REQUESTS_AGENT == "python-requests"
\* URLs and paths are sequences of segments; f"https://{host}{query}" is \o
host == <<"https://leostream.domain.org", "rest", "v1">>
api_login == host \o <<"session", "login">>
logout_url == host \o <<"session", "logout">>
APP_JSON == "application/json"

NoHeader == << >>
Bearer(tok) == <<"Bearer", tok>>

\* Python values passed as data / params: None, {} and a non-empty dict
PyNone == "None"
EmptyDict == "{}"
DataDict == "{d:1}"
ParamDict == "{p:1}"
DataValues == {PyNone, EmptyDict, DataDict}
ParamValues == {PyNone, EmptyDict, ParamDict}
Truthy(v) == v \notin {PyNone, EmptyDict}
\* Python's  a or b
PyOr(a, b) == IF Truthy(a) THEN a ELSE b

Methods == {"GET", "get", "Delete", "HEAD", "OPTIONS", "POST", "Put", "PATCH", "TRACE"}
\* the methods run_api is called with
ApiMethods == {"GET", "POST", "TRACE"}
\* str.lower()
Lower(m) ==
    CASE m \in {"GET", "get"} -> "get"
      [] m = "Delete" -> "delete"
      [] m = "HEAD" -> "head"
      [] m = "OPTIONS" -> "options"
      [] m = "POST" -> "post"
      [] m = "Put" -> "put"
      [] m = "PATCH" -> "patch"
      [] OTHER -> "trace"
\* the request methods httpx.AsyncClient has
ClientMethods == {"get", "delete", "head", "options", "post", "put", "patch"}

Queries == {<<"pools">>, <<"session", "logout">>}

\* what the remote API does with a request
Remotes == {"ok_json", "ok_not_json", "non2xx", "transport"}
\* what the login endpoint answers
LoginKinds == {"sid", "no_sid", "not_json", "transport"}

VARIABLES
    store,      \* content of session/LeostreamLogin.p
    mtime,      \* its modification time, in ticks
    clock,      \* time.time(), in ticks
    lastLogin,  \* sid of the most recent login that was persisted
    wire,       \* the HTTP request the last operation sent
    result,     \* what the last operation returned or raised
    last,       \* the last operation and its arguments
    prev,       \* the operation before it
    gap,        \* the clock advanced since the last operation
    wpc,        \* position of a running gen_LeoSessionID.py
    wsid,       \* the sid that script holds
    concurrent  \* callers may overlap

vars == <<store, mtime, clock, lastLogin, wire, result, last, prev, gap,
          wpc, wsid, concurrent>>

\* -------------------------------------------------------- record shapes
NoRequest ==
    [sent |-> FALSE, url |-> << >>, method |-> "", auth |-> NoHeader,
     agent |-> "", ctype |-> "", query |-> PyNone, body |-> PyNone]

Request(url, method, auth, agent, ctype, query, body) ==
    [sent |-> TRUE, url |-> url, method |-> method, auth |-> auth,
     agent |-> agent, ctype |-> ctype, query |-> query, body |-> body]

\* kind: the fixed text of a returned string, or the type of a returned value
\* or raised exception; keys: the keys of a returned dict, or the names
\* interpolated into a returned string; token, age, lines, hits: their values
Outcome(outcome, kind, keys, token, age, lines, hits) ==
    [outcome |-> outcome, kind |-> kind, keys |-> keys, token |-> token,
     age |-> age, lines |-> lines, hits |-> hits]

Returned(kind, keys) == Outcome("returned", kind, keys, NoToken, 0, << >>, {})
ReturnedLines(kind, lines) == Outcome("returned", kind, {}, NoToken, 0, lines, {})
Raised(exc) == Outcome("raised", exc, {}, NoToken, 0, << >>, {})
Exited(status, lines) == Outcome("exited", status, {}, NoToken, 0, lines, {})
\* a script ended by an uncaught exception: status 1, the traceback names exc
Crashed(exc, lines) == Outcome("exited", "exit 1", {exc}, NoToken, 0, lines, {})
NoResult == Outcome("none", "", {}, NoToken, 0, << >>, {})

\* persisted: the operation stored a new token; afterGap: time had passed
\* between the operation before it and this one
Op(name, impl, method, query, data, params, remote, persisted, afterGap) ==
    [op |-> name, impl |-> impl, method |-> method, query |-> query,
     data |-> data, params |-> params, remote |-> remote,
     persisted |-> persisted, afterGap |-> afterGap]
SessionOp(name, remote, persisted) ==
    Op(name, "agent", "", << >>, PyNone, PyNone, remote, persisted, gap)
NoOp == Op("", "", "", << >>, PyNone, PyNone, "", FALSE, FALSE)
Brief(o) == [op |-> o.op, persisted |-> o.persisted]

\* ---------------------------------------------------------------- Init
Init ==
    /\ store = NoFile
    /\ mtime = 0
    /\ clock = 0
    /\ lastLogin = NoToken
    /\ wire = NoRequest
    /\ result = NoResult
    /\ last = NoOp
    /\ prev = Brief(NoOp)
    /\ gap = FALSE
    /\ wpc = "idle"
    /\ wsid = NoToken
    /\ concurrent = FALSE

\* every operation records itself and what it sent and got
Record(o, w, r) ==
    /\ last' = o
    /\ prev' = Brief(last)
    /\ wire' = w
    /\ result' = r
    /\ gap' = FALSE

\* time passes between operations
Tick ==
    /\ \E t \in TimePoints : t > clock /\ clock' = t
    /\ gap' = TRUE
    /\ UNCHANGED <<store, mtime, lastLogin, wire, result, last, prev,
                   wpc, wsid, concurrent>>

\* ------------------------------------------------- gen_LeoSessionID.py
\* 'sid' in response_data
SidInResponseAny(kind) == kind \in {"sid", "no_sid"}
SidInResponse(kind) == kind = "sid"

\* the file after pickle.dump(sessionID2save, open(..., "wb")) has returned
DumpedTruncated(sid) == Torn
Dumped(sid) == sid

\* the file right after open(..., "wb"), before anything is written
Opened == Torn

\* what the script has printed when it ends (one entry per line, and the
\* empty remainder after the last newline)
GenStdout(kind) ==
    CASE kind = "sid" ->
            <<"<Response>", "saving session..", "Logged into Leostream..",
              "AI Systems Leo Session saved, you do not need to auth for another 12 hours!",
              "">>
      [] kind = "no_sid" -> <<"<Response>", "Failed to login! Exiting...", "">>
      [] OTHER -> << >>

\* its exit status: requests.post or json.loads raising ends it with a
\* traceback; sys.exit() without argument is status 0
GenExit(kind) == IF kind \in {"transport", "not_json"} THEN "exit 1" ELSE "exit 0"

GenEnd(kind) ==
    CASE kind = "transport" -> Crashed("ConnectionError", GenStdout(kind))
      [] kind = "not_json" -> Crashed("JSONDecodeError", GenStdout(kind))
      [] OTHER -> Exited(GenExit(kind), GenStdout(kind))

LoginRequest ==
    Request(api_login, "post", NoHeader, REQUESTS_AGENT, APP_JSON, PyNone,
            "{user_login,password}")

\* the whole script, run to its end
GenScript(kind, sid) ==
    /\ store' = IF SidInResponse(kind) THEN Dumped(sid) ELSE store
    /\ mtime' = IF SidInResponse(kind) THEN clock ELSE mtime
    /\ lastLogin' = IF kind = "sid" THEN sid ELSE lastLogin
    /\ UNCHANGED <<clock, wpc, wsid, concurrent>>

\* str.strip() on the captured output
RECURSIVE LStrip(_)
LStrip(lines) ==
    IF lines # << >> /\ Head(lines) = "" THEN LStrip(Tail(lines)) ELSE lines
RECURSIVE RStrip(_)
RStrip(lines) ==
    IF lines # << >> /\ lines[Len(lines)] = ""
    THEN RStrip(SubSeq(lines, 1, Len(lines) - 1)) ELSE lines
Strip(lines) == RStrip(LStrip(lines))

\* ------------------------------------------------------ session tools
\* generate_session: runs the script, returns its stripped output, or the
\* error string when check_returncode() raises CalledProcessError
GenerateSessionResult(kind) ==
    IF GenExit(kind) = "exit 0"
    THEN ReturnedLines("stdout", Strip(GenStdout(kind)))
    ELSE Returned("Error generating session ID: ", {"e"})

GenerateSession ==
    /\ wpc = "idle"
    /\ \E kind \in LoginKinds, sid \in Sids :
          /\ GenScript(kind, sid)
          /\ Record(SessionOp("generate_session", kind, SidInResponse(kind)),
                    LoginRequest, GenerateSessionResult(kind))

\* the script started by hand
RunGenScript ==
    /\ wpc = "idle"
    /\ \E kind \in LoginKinds, sid \in Sids :
          /\ GenScript(kind, sid)
          /\ Record(SessionOp("gen_LeoSessionID.py", kind, SidInResponse(kind)),
                    LoginRequest, GenEnd(kind))

\* int(time.time()), in seconds
current_time_seconds == clock \div TicksPerSec

\* age = current_time - last_mod_time, in ticks
Age == current_time_seconds * TicksPerSec - mtime

\* ageDif = age >= 43200
AgeDifAlways(age) == age >= 0
AgeDifStrict(age) == age > StaleAfter * TicksPerSec
AgeDif(age) == age >= StaleAfter * TicksPerSec

\* pickle.load(open(SESSION_FILE, "rb"))
PickleLoad ==
    CASE store = NoFile -> Raised("FileNotFoundError")
      [] store = Torn -> Raised("EOFError")
      [] OTHER -> Outcome("returned", "str", {}, store, 0, << >>, {})

GetSessionResult ==
    IF PickleLoad.outcome = "raised"
    THEN PickleLoad   \* only CalledProcessError is caught
    ELSE IF ~AgeDif(Age)
         THEN Outcome("returned", "Found Valid Session: ", {"session_id", "age"},
                      PickleLoad.token, Age, << >>, {})
         ELSE Outcome("returned", "Found a Session, but it is not valid (Over 12Hrs Old)",
                      {"session_id"}, PickleLoad.token, 0, << >>, {})

GetSession ==
    /\ concurrent \/ wpc = "idle"
    /\ Record(SessionOp("get_session", "", FALSE), NoRequest, GetSessionResult)
    /\ UNCHANGED <<store, mtime, clock, lastLogin, wpc, wsid, concurrent>>

\* kill_session: session_id is no name of the function or the module, so
\* building the argument list raises NameError before anything is run
KillSession ==
    /\ wpc = "idle"
    /\ Record(SessionOp("kill_session", "", FALSE), NoRequest, Raised("NameError"))
    /\ UNCHANGED <<store, mtime, clock, lastLogin, wpc, wsid, concurrent>>

\* ------------------------------------------------ kill_LeoSessionID.py
LogoutRemotes == {"ok_json", "ok_not_json", "transport"}

KillScriptRequest ==
    IF PickleLoad.outcome = "raised" THEN NoRequest
    ELSE Request(logout_url, "post", Bearer(PickleLoad.token), REQUESTS_AGENT,
                 "", PyNone, PyNone)

KillScriptResult(remote) ==
    IF PickleLoad.outcome = "raised" THEN Crashed(PickleLoad.kind, << >>)
    ELSE CASE remote = "ok_json" ->
                Exited("exit 0", <<"> Logged into Leostream still!", "response_data",
                                   ">> Development Leostream Session is closed.", "">>)
           [] remote = "ok_not_json" ->
                Crashed("JSONDecodeError", <<"> Logged into Leostream still!", "">>)
           [] OTHER ->
                Crashed("ConnectionError", <<"> Logged into Leostream still!", "">>)

RunKillScript ==
    /\ concurrent \/ wpc = "idle"
    /\ \E remote \in LogoutRemotes :
          Record(SessionOp("kill_LeoSessionID.py", remote, FALSE),
                 KillScriptRequest, KillScriptResult(remote))
    /\ UNCHANGED <<store, mtime, clock, lastLogin, wpc, wsid, concurrent>>

\* ------------------------------------------ make_request (agent server)
\* methods whose data goes into the query string
NoBodyMethods == {"get", "delete", "head", "options"}

\* request_args["params"]
AgentQuery(ml, data, params) ==
    IF ml \in NoBodyMethods THEN PyOr(data, params)
    ELSE IF Truthy(params) THEN params ELSE PyNone

\* request_args["json"]
AgentBody(ml, data) == IF ml \in NoBodyMethods THEN PyNone ELSE data

\* getattr(client, method_lower)(url, **request_args); an unknown method
\* raises AttributeError inside the try, so nothing is sent
AgentWire(url, method, auth, ctype, data, params) ==
    IF Lower(method) \in ClientMethods
    THEN Request(url, Lower(method), auth, USER_AGENT, ctype,
                 AgentQuery(Lower(method), data, params),
                 AgentBody(Lower(method), data))
    ELSE NoRequest

\* response.raise_for_status(); return response.json(), and the two handlers
AgentResultGeneric(method, remote) ==
    IF Lower(method) \in ClientMethods /\ remote = "ok_json"
    THEN Returned("json", {}) ELSE Returned("dict", {"error"})
AgentResult(method, remote) ==
    IF Lower(method) \notin ClientMethods THEN Returned("dict", {"error"})
    ELSE CASE remote = "ok_json" -> Returned("json", {})
           [] remote = "non2xx" -> Returned("dict", {"error", "details"})
           [] OTHER -> Returned("dict", {"error"})

\* ----------------------------------------- make_request (helper server)
HelperMethods == {"get", "post", "put", "delete"}

HelperWire(url, method, auth, ctype, data, params) ==
    CASE Lower(method) = "get" ->
            Request(url, "get", auth, USER_AGENT, ctype, params, PyNone)
      [] Lower(method) \in {"post", "put"} ->
            Request(url, Lower(method), auth, USER_AGENT, ctype, PyNone, data)
      [] Lower(method) = "delete" ->
            Request(url, "delete", auth, USER_AGENT, ctype, PyNone, PyNone)
      [] OTHER -> NoRequest   \* no branch taken: response is unbound

HelperResult(method, remote) ==
    IF Lower(method) \notin HelperMethods THEN Returned("dict", {"error"})
    ELSE IF remote = "ok_json" THEN Returned("json", {})
         ELSE Returned("dict", {"error"})

\* make_request called with headers=None
MakeRequestAgent ==
    /\ wpc = "idle"
    /\ \E m \in Methods, d \in DataValues, p \in ParamValues, r \in Remotes :
          Record(Op("make_request", "agent", m, << >>, d, p, r, FALSE, gap),
                 AgentWire(host, m, NoHeader, "", d, p), AgentResult(m, r))
    /\ UNCHANGED <<store, mtime, clock, lastLogin, wpc, wsid, concurrent>>

MakeRequestHelper ==
    /\ wpc = "idle"
    /\ \E m \in Methods, d \in DataValues, p \in ParamValues, r \in Remotes :
          Record(Op("make_request", "helper", m, << >>, d, p, r, FALSE, gap),
                 HelperWire(host, m, NoHeader, "", d, p), HelperResult(m, r))
    /\ UNCHANGED <<store, mtime, clock, lastLogin, wpc, wsid, concurrent>>

\* ---------------------------------------------------------- run_api
\* api_headers holds User-Agent and Content-Type; data and params are None
RunApi ==
    /\ wpc = "idle"
    /\ \E q \in Queries, m \in ApiMethods, r \in Remotes :
          Record(Op("run_api", "agent", m, q, PyNone, PyNone, r, FALSE, gap),
                 AgentWire(host \o q, m, NoHeader, APP_JSON, PyNone, PyNone),
                 AgentResult(m, r))
    /\ UNCHANGED <<store, mtime, clock, lastLogin, wpc, wsid, concurrent>>

\* --------------------------------------------------------- query_api
\* the path column of api_endpoints
CatalogPaths ==
    { <<"rest", "v1", "session", "login">>, <<"rest", "v1", "session", "logout">>,
      <<"rest", "v1", "pools">> }
CatalogQueries == { <<"login">>, <<"session">>, <<"v1", "pools">>, <<"zzz-nomatch">> }

\* path LIKE '%query%'
Like(path, query) ==
    \E i \in 1..(Len(path) - Len(query) + 1) :
        SubSeq(path, i, i + Len(query) - 1) = query

search_endpoint(query) == { path \in CatalogPaths : Like(path, query) }

QueryApiResult(query) ==
    IF search_endpoint(query) = {}
    THEN Outcome("returned", "json", {"error"}, NoToken, 0,
                 <<"No matching endpoints found">>, {})
    ELSE Outcome("returned", "json", {"available_paths"}, NoToken, 0, << >>,
                 search_endpoint(query))

QueryApi ==
    /\ wpc = "idle"
    /\ \E q \in CatalogQueries :
          Record(Op("query_api", "agent", "", q, PyNone, PyNone, "", FALSE, gap),
                 NoRequest, QueryApiResult(q))
    /\ UNCHANGED <<store, mtime, clock, lastLogin, wpc, wsid, concurrent>>

\* ------------------------------------------------------ specifications
\* tool invocations and script runs, one after another
Next ==
    \/ Tick
    \/ GenerateSession
    \/ RunGenScript
    \/ GetSession
    \/ KillSession
    \/ RunKillScript
    \/ RunApi
    \/ QueryApi

Spec == Init /\ [][Next]_vars

\* the request forwarder on its own, over all its arguments
NextFwd ==
    \/ MakeRequestAgent
    \/ MakeRequestHelper
    \/ RunApi

SpecFwd == Init /\ [][NextFwd]_vars

\* gen_LeoSessionID.py one statement at a time, next to readers of the file
GenPost ==
    /\ wpc = "idle"
    /\ \E kind \in LoginKinds, sid \in Sids :
          /\ wpc' = IF SidInResponse(kind) THEN "posted" ELSE "idle"
          /\ wsid' = IF SidInResponse(kind) THEN sid ELSE NoToken
          /\ Record(SessionOp("gen_LeoSessionID.py", kind, FALSE), LoginRequest,
                    IF SidInResponse(kind) THEN NoResult
                    ELSE GenEnd(kind))
    /\ UNCHANGED <<store, mtime, clock, lastLogin, concurrent>>

GenOpen ==
    /\ wpc = "posted"
    /\ store' = Opened
    /\ mtime' = clock
    /\ wpc' = "opened"
    /\ UNCHANGED <<clock, lastLogin, wire, result, last, prev, gap, wsid, concurrent>>

GenDump ==
    /\ wpc = "opened"
    /\ store' = Dumped(wsid)
    /\ mtime' = clock
    /\ lastLogin' = wsid
    /\ wpc' = "idle"
    /\ wsid' = NoToken
    /\ UNCHANGED <<clock, wire, result, last, prev, gap, concurrent>>

InitConc ==
    /\ store = NoFile
    /\ mtime = 0
    /\ clock = 0
    /\ lastLogin = NoToken
    /\ wire = NoRequest
    /\ result = NoResult
    /\ last = NoOp
    /\ prev = Brief(NoOp)
    /\ gap = FALSE
    /\ wpc = "idle"
    /\ wsid = NoToken
    /\ concurrent \in BOOLEAN

NextConc ==
    \/ Tick
    \/ GenPost
    \/ GenOpen
    \/ GenDump
    \/ GetSession
    \/ RunKillScript

SpecConc == InitConc /\ [][NextConc]_vars

\* ================================================================ claims
ToolNames == {"run_api", "query_api", "generate_session", "get_session", "kill_session"}
ValidText == "Found Valid Session: "
StaleText == "Found a Session, but it is not valid (Over 12Hrs Old)"

\* C1: every request run_api forwards carries Authorization: Bearer <token>,
\* the token being the one the credential file holds at the time of the call.
C1_RunApiBearsStoredToken ==
    (last.op = "run_api" /\ wire.sent /\ store \in Sids)
        => wire.auth = Bearer(store)

\* C2: none of the five tools raises to its caller: each invocation ends by
\* returning a value, and get_session without a persisted token returns the
\* formatted error string.
C2_ToolsNeverRaise ==
    /\ last.op \in ToolNames => result.outcome = "returned"
    /\ (last.op = "get_session" /\ store = NoFile)
          => result.kind = "Error finding a valid session"

\* C3: a kill_session made while a token is persisted sends a logout request
\* with Authorization: Bearer <stored token>, then returns a string.
C3_KillSessionSendsLogout ==
    (last.op = "kill_session" /\ store \in Sids)
        => /\ wire.sent
           /\ wire.url = logout_url
           /\ wire.auth = Bearer(store)
           /\ result.outcome = "returned"

\* C4: a get_session issued right after a login that persisted its token,
\* with no time elapsed in between, reports Valid with the token just stored
\* and an age of about 0 (within a second of 0, below 43200 s).
C4_Fresh == last.op = "get_session" /\ ~last.afterGap /\ prev.persisted

C4_FreshSessionValid ==
    C4_Fresh
        => /\ result.outcome = "returned"
           /\ result.kind = ValidText
           /\ result.token = lastLogin
           /\ result.age > 0 - TicksPerSec
           /\ result.age <= 0
           /\ result.age < 43200 * TicksPerSec

C4_Witness ==
    /\ C4_Fresh
    /\ prev.op = "generate_session"
    /\ result.kind = ValidText
    /\ result.token \in Sids

\* C5: get_session reports Valid exactly when age < 43200 s and Stale exactly
\* when age >= 43200 s, age being current_time - last_mod_time; the token is
\* returned in both cases.
C5_Answered == last.op = "get_session" /\ ~gap /\ result.outcome = "returned"

C5_ValidIffYoung ==
    C5_Answered
        => /\ (result.kind = ValidText) <=> (Age < 43200 * TicksPerSec)
           /\ (result.kind = StaleText) <=> (Age >= 43200 * TicksPerSec)
           /\ result.token = store
           /\ "session_id" \in result.keys

C5_Witness ==
    /\ C5_Answered
    /\ Age = 43200 * TicksPerSec
    /\ result.kind = StaleText
    /\ result.token \in Sids

\* C6: the credential file holds the token of the most recent persisted
\* login and nothing before the first; kill_session, get_session, run_api,
\* the logout script and a login whose response has no sid leave token and
\* modification time as they were, and get_session after kill_session still
\* finds the token.
C6_Keeps ==
    \/ last'.op \in {"kill_session", "get_session", "run_api", "query_api",
                     "kill_LeoSessionID.py"}
    \/ (last'.op \in {"generate_session", "gen_LeoSessionID.py"}
          /\ last'.remote # "sid")

C6_StoreIsLastLogin ==
    /\ [](store = IF lastLogin = NoToken THEN NoFile ELSE lastLogin)
    /\ []((prev.op = "kill_session" /\ last.op = "get_session" /\ lastLogin # NoToken)
            => (result.outcome = "returned" /\ result.token = lastLogin))
    /\ [][(~gap' /\ C6_Keeps) => (store' = store /\ mtime' = mtime)]_vars

C6_Witness ==
    /\ prev.op = "kill_session"
    /\ last.op = "get_session"
    /\ result.outcome = "returned"
    /\ result.token = lastLogin
    /\ lastLogin \in Sids

\* C7: generate_session returns the raw token or a formatted error string:
\* exactly the persisted token when the login succeeds, the error string
\* when the response lacks sid; it never retries.
C7_GenerateReturnsToken ==
    last.op = "generate_session"
        => /\ last.remote = "sid" => result.lines = <<store>>
           /\ last.remote = "no_sid" => result.kind = "Error generating session ID: "
           /\ wire = LoginRequest

\* C8: make_request sends data as query parameters and no body for GET,
\* DELETE, HEAD and OPTIONS in any letter case, and for POST, PUT and PATCH
\* sends data as the JSON body and still attaches supplied query parameters.
C8_MethodDispatch ==
    (last.op = "make_request" /\ Lower(last.method) \in ClientMethods)
        => /\ wire.sent
           /\ wire.method = Lower(last.method)
           /\ IF Lower(last.method) \in {"get", "delete", "head", "options"}
              THEN /\ wire.body = PyNone
                   /\ Truthy(last.data) => wire.query = last.data
              ELSE /\ wire.body = last.data
                   /\ Truthy(last.params) => wire.query = last.params

\* the same dispatch, of the agent server's make_request alone
C8_AgentMethodDispatch == last.impl = "agent" => C8_MethodDispatch

C9_Failed == last.op \in {"make_request", "run_api"} /\ wire.sent

C10_ReadTorn ==
    /\ last.op \in {"get_session", "kill_LeoSessionID.py"}
    /\ "EOFError" \in ({result.kind} \cup result.keys)

C10_TornReadOnlyConcurrent == C10_ReadTorn => concurrent

C10_Witness ==
    /\ C10_ReadTorn
    /\ last.op = "get_session"
    /\ wpc = "opened"
    /\ store = Torn
    /\ lastLogin \in Sids
    /\ concurrent
====
